---- MODULE Spec2Model ----
(***************************************************************************)
(* Model of omnigraffle_export (src/src/omnigraffle_export/__init__.py):   *)
(* OmniGraffleSchema.export, export_all, compute_canvas_checksum and the   *)
(* module functions checksum and checksum_pdf, over an explicit file       *)
(* system and an opened document.                                          *)
(*                                                                         *)
(* Abstractions.  The external application's rendering is a deterministic  *)
(* function of (format, canvas content): a rendered file holds the bytes   *)
(* <<format, content>>.  md5 is collision free on the files of the model:  *)
(* Hexdigest maps bytes to a two character hex string.  Strings are        *)
(* sequences of one-character strings, so that '%s%s' formatting,          *)
(* startswith and slicing are computed as the code computes them.          *)
(***************************************************************************)
EXTENDS Naturals, Sequences, FiniteSets

\* ------------------------------------------------------------------ bounds
MaxRevision == 2       \* the document is drawn in revisions 1..MaxRevision
RecursionLimit == 3    \* stands for the interpreter's recursion limit

\* --------------------------------------------------------------- constants
\* EXPORT_FORMATS keys
Formats == {"eps", "pdf", "png", "svg"}

\* PDF_CHECKSUM_ATTRIBUTE = 'OmnigraffleExportChecksum: '
PDF_CHECKSUM_ATTRIBUTE ==
    << "O","m","n","i","g","r","a","f","f","l","e",
       "E","x","p","o","r","t",
       "C","h","e","c","k","s","u","m",":"," " >>

\* format of the nested export of compute_canvas_checksum (faulty variant: pdf)
ChecksumFormatPdf == "pdf"
ChecksumFormat == "png"

\* canvas names of the model; MissingName names no canvas of any document
Names == {"A", "B"}
MissingName == "X"
Revisions == 1..MaxRevision
\* the canvas names of the documents of the model, in canvas order
NameLists ==
    {<<"A">>, <<"A", "B">>, <<"A", "A">>, <<"A", "A", "B">>, <<"B", "A", "A">>}

\* ------------------------------------------------------------- file system
\* A path is <<directory, base name, extension>>.
OutFile == <<"cwd", "out", "">>
TargetDir == "target"
TmpPaths == {<<"tmp", "t1", "png">>, <<"tmp", "t2", "png">>}

\* "%s.%s" % (c, f), joined to the target directory (faulty variant: the extension is
\* always pdf)
NamemapFixedExtension(dir, c, f) == <<dir, c, "pdf">>
namemap(dir, c, f) == <<dir, c, f>>

DirPaths == {namemap(TargetDir, c, f) : c \in Names, f \in Formats}
Paths == {OutFile} \cup DirPaths \cup TmpPaths

NoFile == [exists |-> FALSE, bytes |-> <<"", 0>>, hasSubject |-> FALSE, subject |-> <<>>]
File(bytes) == [exists |-> TRUE, bytes |-> bytes, hasSubject |-> FALSE, subject |-> <<>>]
EmptyFile == File(<<"empty", 0>>)
PartialFile == File(<<"partial", 0>>)

\* os.path.isfile
isfile(fs, p) == fs[p].exists

\* ------------------------------------------------------------------ values
\* A Python value that is None or a string.
None == [isNone |-> TRUE, str |-> <<>>]
Str(s) == [isNone |-> FALSE, str |-> s]
\* '%s' % v
Format(v) == IF v.isNone THEN <<"N","o","n","e">> ELSE v.str

StartsWith(s, p) == Len(s) >= Len(p) /\ SubSeq(s, 1, Len(p)) = p

HexDigits == <<"0","1","2","3","4","5","6","7","8","9","a","b","c","d","e","f">>
KindDigit(k) ==
    CASE k = "pdf" -> "a" [] k = "png" -> "b" [] k = "svg" -> "c"
      [] k = "eps" -> "e" [] k = "partial" -> "d" [] k = "foreign" -> "f"
      [] OTHER -> "0"
\* hashlib.md5(...).hexdigest() of a file's bytes
Hexdigest(bytes) == <<KindDigit(bytes[1]), HexDigits[bytes[2] + 1]>>

\* a call's outcome: the exception raised ("none" when it returns) and the value
Ok(v) == [exc |-> "none", val |-> v]
Raise(e) == [exc |-> e, val |-> None]

\* checksum(filepath), lines 135-143
checksum(fs, filepath) ==
    IF ~isfile(fs, filepath) THEN Raise("AssertionError@136")
    ELSE Ok(Str(Hexdigest(fs[filepath].bytes)))

\* checksum_pdf(filepath), lines 145-156
checksum_pdf(fs, filepath) ==
    IF ~isfile(fs, filepath) THEN Raise("AssertionError@146")
    ELSE IF fs[filepath].bytes[1] # "pdf" THEN Raise("AssertionError@150")
    ELSE IF ~fs[filepath].hasSubject THEN Raise("KeyError@151")
    ELSE LET chksum == fs[filepath].subject
         IN IF ~StartsWith(chksum, PDF_CHECKSUM_ATTRIBUTE) THEN Ok(None)
            ELSE Ok(Str(SubSeq(chksum, Len(PDF_CHECKSUM_ATTRIBUTE) + 1, Len(chksum))))

\* ------------------------------------------------------------ the document
\* A canvas of the opened document: its name and its drawn content.
Canvas(n, c) == [name |-> n, content |-> c]
\* what the i-th canvas holds in revision rev: no two canvases hold the same
ContentAt(i, rev) == (i - 1) * MaxRevision + rev
\* self.og.open(self.schemafile), line 39: the canvases of the document
Doc(names, rev) == [i \in 1..Len(names) |-> Canvas(names[i], ContentAt(i, rev))]
Docs == {Doc(names, rev) : names \in NameLists, rev \in Revisions}

\* get_canvas_list, lines 43-48
get_canvas_list(doc) == [i \in 1..Len(doc) |-> doc[i].name]

\* [c for c in self.doc.canvases() if c.name() == canvasname], line 75
MatchingCanvases(doc, canvasname) == SelectSeq(doc, LAMBDA c : c.name = canvasname)

\* --------------------------------------------- the external application
\* How a save of the external application ends: "ok", "raise" (it raises and
\* writes nothing) or "raise_written" (it raises, a file is left at the path).
SaveMode(fault, is_checksum) ==
    IF is_checksum
    THEN (CASE fault = "tmp_raise" -> "raise"
            [] fault = "tmp_raise_written" -> "raise_written"
            [] OTHER -> "ok")
    ELSE (CASE fault = "dest_raise" -> "raise"
            [] fault = "dest_raise_written" -> "raise_written"
            [] OTHER -> "ok")
Faults == {"tmp_raise", "tmp_raise_written", "dest_raise", "dest_raise_written"}

\* self.doc.save(as_=export_format, in_=file), lines 85-89
doc_save(fs, file, format, content, mode) ==
    CASE mode = "ok" ->
           [fs |-> [fs EXCEPT ![file] = File(<<format, content>>)], exc |-> "none"]
      [] mode = "raise_written" ->
           [fs |-> [fs EXCEPT ![file] = PartialFile], exc |-> "CommandError@89"]
      [] OTHER -> [fs |-> fs, exc |-> "CommandError@89"]

\* ------------------------------------------------------------------ export
\* os.path.isfile(file) and not force, line 58 (faulty variant: force is ignored)
NeedsCheckIgnoresForce(fs, file, force) == isfile(fs, file)
NeedsCheck(fs, file, force) == isfile(fs, file) /\ ~force

\* existing_chksum == new_chksum and existing_chksum != None, line 63
\* (faulty variant: never equal)
UnchangedNever(existing_chksum, new_chksum) == FALSE
Unchanged(existing_chksum, new_chksum) ==
    existing_chksum = new_chksum /\ ~existing_chksum.isNone

\* elif format == 'pdf', line 70 (faulty variant: the branch is never taken)
ChecksumOnRenderNever(format) == FALSE
ChecksumOnRender(format) == format = "pdf"

\* '%s%s' % (PDF_CHECKSUM_ATTRIBUTE, chksum), lines 102-103 (faulty variant: the marker
\* is left out)
SubjectAttributeNoMarker(chksum) == Format(chksum)
SubjectAttribute(chksum) == PDF_CHECKSUM_ATTRIBUTE \o Format(chksum)

\* tempfile.mkstemp(suffix='.png')[1]: a path at which no file exists
mkstemp(fs) == CHOOSE p \in TmpPaths : ~isfile(fs, p)

NotCalled == [exc |-> "notcalled", val |-> None]

\* What a call did: the file system it leaves, the exception it raised ("none"
\* when it returned), the value returned, the saves asked of the external
\* application, the checksum it holds in chksum, the deepest export frame, the
\* number of compute_canvas_checksum calls, the outcome of reading the existing
\* checksum, whether it returned at line 66, and whether a nested export
\* entered one of the two checksum branches.
Outcome(fs, depth) ==
    [fs |-> fs, exc |-> "none", ret |-> "False", saves |-> <<>>, chksum |-> None,
     depth |-> depth, nested |-> 0, existing |-> NotCalled, skipped |-> FALSE,
     nestedBranch |-> FALSE]

RECURSIVE export(_, _, _, _, _, _, _, _, _)

\* lines 128-132: e is what the nested export did and c the checksum read from
\* the temporary file, which the finally clause unlinks
read_and_unlink(e, tmpfile, c) ==
    [e EXCEPT !.fs = [e.fs EXCEPT ![tmpfile] = NoFile],
              !.exc = c.exc,
              !.ret = IF c.exc = "none" THEN "value" ELSE "raised",
              !.chksum = c.val,
              !.nested = @ + 1, !.existing = NotCalled, !.skipped = FALSE]

\* assert self.export(canvasname, tmpfile, 'png', True, True), line 126
assert_exported(e, tmpfile) ==
    IF e.exc # "none"
    THEN [e EXCEPT !.ret = "raised",
                   !.nested = @ + 1, !.existing = NotCalled, !.skipped = FALSE]
    ELSE IF e.ret # "True"
    THEN [e EXCEPT !.exc = "AssertionError@126", !.ret = "raised",
                   !.nested = @ + 1, !.existing = NotCalled, !.skipped = FALSE]
    ELSE read_and_unlink(e, tmpfile, checksum(e.fs, tmpfile))

\* lines 123-126: the temporary file is created by mkstemp, unlinked, and the
\* canvas is exported to its path
render_to(fs0, doc, canvasname, fault, depth, tmpfile) ==
    assert_exported(
        export([[fs0 EXCEPT ![tmpfile] = EmptyFile] EXCEPT ![tmpfile] = NoFile],
               doc, canvasname, tmpfile, ChecksumFormat, TRUE, TRUE, fault, depth + 1),
        tmpfile)

\* compute_canvas_checksum(canvasname), lines 122-132; a frame beyond the
\* recursion limit raises RuntimeError
compute_canvas_checksum(fs0, doc, canvasname, fault, depth) ==
    IF depth >= RecursionLimit
    THEN [Outcome(fs0, depth) EXCEPT !.exc = "RuntimeError", !.ret = "raised"]
    ELSE render_to(fs0, doc, canvasname, fault, depth, mkstemp(fs0))

\* the frame of an export call before line 73
Start(fs0, depth, existing, branch) ==
    [Outcome(fs0, depth) EXCEPT !.existing = existing, !.nestedBranch = branch]

\* the frame once compute_canvas_checksum has returned new
After(start, new) ==
    [start EXCEPT !.fs = new.fs, !.saves = new.saves, !.chksum = new.chksum,
                  !.depth = new.depth, !.nested = new.nested,
                  !.nestedBranch = @ \/ new.nestedBranch]

\* lines 91-108: after the save; a pdf gets the checksum as its subject
export_saved(computed, file, format, call, saved) ==
    IF saved.exc # "none"
    THEN [computed EXCEPT !.fs = saved.fs, !.exc = saved.exc, !.ret = "raised",
                          !.saves = Append(@, call)]
    ELSE [computed EXCEPT
             !.fs = IF format = "pdf"
                    THEN [saved.fs EXCEPT
                             ![file].hasSubject = TRUE,
                             ![file].subject = SubjectAttribute(computed.chksum)]
                    ELSE saved.fs,
             !.ret = "True",
             !.saves = Append(@, call)]

\* lines 73-89: the canvas is looked up by name and saved
export_canvas(computed, file, format, is_checksum, fault, canvas) ==
    IF Len(canvas) # 1
    THEN [computed EXCEPT !.ret = "False"]
    ELSE export_saved(computed, file, format,
                      [file |-> file, format |-> format, content |-> canvas[1].content],
                      doc_save(computed.fs, file, format, canvas[1].content,
                               SaveMode(fault, is_checksum)))

\* lines 63-68: the existing and the new checksum are compared
export_compared(start, doc, canvasname, file, format, is_checksum, fault, existing_chksum, new) ==
    IF new.exc # "none"
    THEN [After(start, new) EXCEPT !.exc = new.exc, !.ret = "raised", !.chksum = None]
    ELSE IF Unchanged(existing_chksum.val, new.chksum)
    THEN [After(start, new) EXCEPT !.ret = "False", !.skipped = TRUE]
    ELSE export_canvas(After(start, new), file, format, is_checksum, fault,
                       MatchingCanvases(doc, canvasname))

\* lines 59-61: the existing checksum is read, then the new one is computed
export_checked(fs0, doc, canvasname, file, format, is_checksum, fault, depth, existing_chksum) ==
    IF existing_chksum.exc # "none"
    THEN [Start(fs0, depth, existing_chksum, is_checksum) EXCEPT
             !.exc = existing_chksum.exc, !.ret = "raised"]
    ELSE export_compared(Start(fs0, depth, existing_chksum, is_checksum),
                         doc, canvasname, file, format, is_checksum, fault,
                         existing_chksum,
                         compute_canvas_checksum(fs0, doc, canvasname, fault, depth))

\* lines 70-71: the checksum a pdf is to carry is computed
export_rendered(start, doc, canvasname, file, format, is_checksum, fault, new) ==
    IF new.exc # "none"
    THEN [After(start, new) EXCEPT !.exc = new.exc, !.ret = "raised", !.chksum = None]
    ELSE export_canvas(After(start, new), file, format, is_checksum, fault,
                       MatchingCanvases(doc, canvasname))

\* export(canvasname, file, format, force, is_checksum), lines 50-108
export(fs0, doc, canvasname, file, format, force, is_checksum, fault, depth) ==
    IF NeedsCheck(fs0, file, force)
    THEN export_checked(fs0, doc, canvasname, file, format, is_checksum, fault, depth,
                        IF format # "pdf" THEN checksum(fs0, file)
                                          ELSE checksum_pdf(fs0, file))
    ELSE IF ChecksumOnRender(format)
    THEN export_rendered(Start(fs0, depth, NotCalled, is_checksum),
                         doc, canvasname, file, format, is_checksum, fault,
                         compute_canvas_checksum(fs0, doc, canvasname, fault, depth))
    ELSE export_canvas(Start(fs0, depth, NotCalled, FALSE), file, format,
                       is_checksum, fault, MatchingCanvases(doc, canvasname))

\* -------------------------------------------------------------- export_all
Max(a, b) == IF a >= b THEN a ELSE b

\* what the loop has done once export has handled canvas c
visited_canvas(acc, c, e) ==
    [acc EXCEPT !.fs = e.fs, !.exc = e.exc,
                !.ret = IF e.exc = "none" THEN "None" ELSE "raised",
                !.saves = @ \o e.saves,
                !.depth = Max(@, e.depth),
                !.nested = @ + e.nested,
                !.nestedBranch = @ \/ e.nestedBranch,
                !.visited = Append(@, c),
                !.rets = Append(@, e.ret)]

RECURSIVE export_all_from(_, _, _, _, _, _, _)
\* the loop of export_all, lines 116-120, from the i-th canvas on; an
\* exception of export ends the loop
export_all_from(acc, doc, i, targetdir, fmt, force, fault) ==
    IF i > Len(doc) \/ acc.exc # "none" THEN acc
    ELSE export_all_from(
             visited_canvas(acc, get_canvas_list(doc)[i],
                 export(acc.fs, doc, get_canvas_list(doc)[i],
                        namemap(targetdir, get_canvas_list(doc)[i], fmt),
                        fmt, force, FALSE, fault, 0)),
             doc, i + 1, targetdir, fmt, force, fault)

\* export_all(targetdir, fmt, force), lines 110-120
export_all(fs0, doc, targetdir, fmt, force, fault) ==
    export_all_from(
        [fs |-> fs0, exc |-> "none", ret |-> "None", saves |-> <<>>, depth |-> 0,
         nested |-> 0, nestedBranch |-> FALSE, visited |-> <<>>, rets |-> <<>>],
        doc, 1, targetdir, fmt, force, fault)

\* ------------------------------------------------------------------- state
VARIABLES
    format,     \* options.format of the runs, lines 162-164
    batch,      \* whether the runs give no canvas name (target is a directory), lines 183, 194
    canvases,   \* self.doc.canvases(): the canvases of the opened document
    fs,         \* the files on disk
    last        \* the last operation: its arguments, the files before it, what it did

vars == <<format, batch, canvases, fs, last>>

EmptyFs == [p \in Paths |-> NoFile]

\* the file a run of export leaves at OutFile for a canvas of content c
ExportedFile(f, c) ==
    export(EmptyFs, <<Canvas("A", c)>>, "A", OutFile, f, TRUE, FALSE, "none", 0).fs[OutFile]

\* pdf files of another tool: without a subject, and with a subject of its own
ForeignPdf == File(<<"pdf", 0>>)
ForeignPdfWithSubject ==
    [File(<<"pdf", 0>>) EXCEPT !.hasSubject = TRUE, !.subject = <<"m","e","m","o">>]

\* what may lie at the destination when the first run starts
InitialOutFiles ==
    {NoFile, ForeignPdf, ForeignPdfWithSubject}
        \cup {ExportedFile("png", ContentAt(1, rev)) : rev \in Revisions}

Summary(l) ==
    [op |-> l.op, canvasname |-> l.canvasname, force |-> l.force,
     exc |-> l.exc, ret |-> l.ret]
NoSummary == [op |-> "none", canvasname |-> "", force |-> FALSE, exc |-> "none", ret |-> "None"]

\* the record of a freshly opened document, lines 29-41
Opened(files) ==
    [op |-> "open", canvasname |-> "", force |-> FALSE, pre |-> files,
     exc |-> "none", ret |-> "None", saves |-> <<>>, chksum |-> None, depth |-> 0,
     nested |-> 0, existing |-> NotCalled, skipped |-> FALSE, nestedBranch |-> FALSE,
     visited |-> <<>>, rets |-> <<>>, prev |-> NoSummary]

Init ==
    /\ format \in Formats
    /\ batch \in BOOLEAN
    /\ canvases \in Docs
    /\ \E f \in InitialOutFiles :
           fs = IF batch THEN EmptyFs ELSE [EmptyFs EXCEPT ![OutFile] = f]
    /\ last = Opened(fs)

\* OmniGraffleSchema(options, schemafile), lines 29-41: the document is opened
\* as it now is, in revision rev
Open(rev) ==
    /\ canvases' = Doc(get_canvas_list(canvases), rev)
    /\ last' = Opened(fs)
    /\ UNCHANGED <<format, batch, fs>>

\* mkstemp always finds an unused name
TmpAvailable == \E p \in TmpPaths : ~isfile(fs, p)

\* schema.export(options.canvas, target, options.format, force=options.force),
\* lines 195-196
ExportWith(canvasname, force, fault) ==
    /\ ~batch
    /\ TmpAvailable
    /\ \E r \in {export(fs, canvases, canvasname, OutFile, format, force, FALSE, fault, 0)} :
          /\ fs' = r.fs
          /\ last' = [op |-> "export", canvasname |-> canvasname, force |-> force,
                      pre |-> fs, exc |-> r.exc, ret |-> r.ret, saves |-> r.saves,
                      chksum |-> r.chksum, depth |-> r.depth, nested |-> r.nested,
                      existing |-> r.existing, skipped |-> r.skipped,
                      nestedBranch |-> r.nestedBranch,
                      visited |-> <<>>, rets |-> <<>>, prev |-> Summary(last)]
    /\ UNCHANGED <<format, batch, canvases>>

\* schema.export_all(target, fmt=options.format, force=options.force), line 198
ExportAllWith(force, fault) ==
    /\ batch
    /\ TmpAvailable
    /\ \E r \in {export_all(fs, canvases, TargetDir, format, force, fault)} :
          /\ fs' = r.fs
          /\ last' = [op |-> "export_all", canvasname |-> "", force |-> force,
                      pre |-> fs, exc |-> r.exc, ret |-> r.ret, saves |-> r.saves,
                      chksum |-> None, depth |-> r.depth, nested |-> r.nested,
                      existing |-> NotCalled, skipped |-> FALSE,
                      nestedBranch |-> r.nestedBranch,
                      visited |-> r.visited, rets |-> r.rets, prev |-> Summary(last)]
    /\ UNCHANGED <<format, batch, canvases>>

\* the external application does what it is asked
Export(canvasname, force) == ExportWith(canvasname, force, "none")
ExportAll(force) == ExportAllWith(force, "none")

\* a save of the external application fails
ExportFailing(canvasname, force, fault) == ExportWith(canvasname, force, fault)
ExportAllFailing(force, fault) == ExportAllWith(force, fault)

Next ==
    \/ \E rev \in Revisions : Open(rev)
    \/ \E canvasname \in Names \cup {MissingName}, force \in BOOLEAN :
           Export(canvasname, force)
    \/ \E force \in BOOLEAN : ExportAll(force)

Spec == Init /\ [][Next]_vars

NextFailing ==
    \/ Next
    \/ \E canvasname \in Names \cup {MissingName}, force \in BOOLEAN, fault \in Faults :
           ExportFailing(canvasname, force, fault)
    \/ \E force \in BOOLEAN, fault \in Faults : ExportAllFailing(force, fault)

SpecFailing == Init /\ [][NextFailing]_vars

\* ------------------------------------------------------------------ claims
\* Vocabulary of the claims, stated on the files and on the record of the last
\* operation, not through the operators of export.
IsExport == last.op = "export"
IsExportAll == last.op = "export_all"
Matches == Len(SelectSeq(canvases, LAMBDA c : c.name = last.canvasname))
Unique == Matches = 1
TheContent == SelectSeq(canvases, LAMBDA c : c.name = last.canvasname)[1].content
\* the checksum of the png rendering of a canvas of content c
RenderChecksum(c) == <<"b", HexDigits[c + 1]>>
Marker == << "O","m","n","i","g","r","a","f","f","l","e",
             "E","x","p","o","r","t","C","h","e","c","k","s","u","m",":"," " >>
TmpClean == \A p \in TmpPaths : ~fs[p].exists
SavedTo(path) == \E i \in DOMAIN last.saves : last.saves[i].file = path
DestUntouched == fs[OutFile] = last.pre[OutFile] /\ ~SavedTo(OutFile)
\* the export before this one was the same call, and the document was not
\* opened again in between
Repeated ==
    /\ IsExport
    /\ last.prev.op = "export"
    /\ last.prev.canvasname = last.canvasname
    /\ last.prev.force = last.force
Tagged(f) == f.hasSubject /\ Len(f.subject) >= 27 /\ SubSeq(f.subject, 1, 27) = Marker
\* the checksum recorded in an existing output: the subject's tail for a pdf,
\* the hash of the whole file otherwise; <<>> stands for null here
Recorded(f) ==
    IF format = "pdf"
    THEN (IF Tagged(f) THEN SubSeq(f.subject, 28, Len(f.subject)) ELSE <<>>)
    ELSE Hexdigest(f.bytes)

\* C1 (as claimed): export with a canvas name that matches no canvas returns
\* False without raising, for every format, force and destination, creates no
\* file at the destination and leaves no temporary file.
C1_MissingCanvasReturnsFalse ==
    (IsExport /\ Matches = 0) =>
        /\ last.exc = "none"
        /\ last.ret = "False"
        /\ fs[OutFile] = last.pre[OutFile]
        /\ TmpClean

\* C2 (as claimed): the second of two equal non-forced pdf exports of an
\* unchanged canvas performs no save at all, returns False and leaves the
\* destination as the first call wrote it.
C2_SecondCallRendersNothing ==
    (Repeated /\ format = "pdf" /\ ~last.force /\ Unique /\ last.prev.exc = "none") =>
        /\ last.saves = <<>>
        /\ last.ret = "False"
        /\ fs[OutFile] = last.pre[OutFile]

\* C2 (amended): the second of two equal non-forced pdf exports of an unchanged
\* document never saves to the destination and leaves it as the first call left
\* it; the only save it asks for is the temporary png of the checksum
\* computation, which is gone when it ends; and when the first call returned
\* (True or False), the second renders that one png and returns False.
C2_SecondCallSkipsDestination ==
    (Repeated /\ format = "pdf" /\ ~last.force) =>
        /\ DestUntouched
        /\ Len(last.saves) <= 1
        /\ \A i \in DOMAIN last.saves :
               last.saves[i].file \in TmpPaths /\ last.saves[i].format = "png"
        /\ TmpClean
        /\ last.prev.exc = "none" =>
               /\ last.exc = "none"
               /\ last.ret = "False"
               /\ last.skipped
               /\ Len(last.saves) = 1

C2_Witness ==
    /\ Repeated /\ format = "pdf" /\ ~last.force
    /\ last.prev.ret = "True"
    /\ last.ret = "False"
    /\ Len(last.saves) = 1

\* C3: export of a uniquely named canvas with force set, or to a destination at
\* which no file exists, always saves the canvas to the destination in the
\* requested format and returns True, whatever checksum the destination holds.
C3_ForceOrAbsentAlwaysRenders ==
    (IsExport /\ Unique /\ (last.force \/ ~last.pre[OutFile].exists)) =>
        /\ last.exc = "none"
        /\ last.ret = "True"
        /\ last.saves # <<>>
        /\ last.saves[Len(last.saves)] =
               [file |-> OutFile, format |-> format, content |-> TheContent]
        /\ fs[OutFile].exists
        /\ fs[OutFile].bytes = <<format, TheContent>>

\* forced, over a pdf whose stored checksum equals the canvas's current one
C3_Witness ==
    /\ IsExport /\ Unique /\ last.force /\ format = "pdf"
    /\ last.pre[OutFile].exists
    /\ last.pre[OutFile].hasSubject
    /\ last.pre[OutFile].subject = Marker \o RenderChecksum(TheContent)
    /\ last.ret = "True"

\* vocabulary of the batch claims
CanvasNames == [i \in 1..Len(canvases) |-> canvases[i].name]
NameCount(n) == Cardinality({i \in 1..Len(canvases) : canvases[i].name = n})
DistinctNames == \A i \in 1..Len(canvases) : NameCount(canvases[i].name) = 1
DirFiles(files) == {p \in Paths : p[1] = TargetDir /\ files[p].exists}
FromEmptyDir == IsExportAll /\ DirFiles(last.pre) = {}
\* the first canvas whose name another canvas shares (0: there is none)
FirstShared ==
    IF DistinctNames THEN 0
    ELSE CHOOSE i \in 1..Len(canvases) :
             /\ NameCount(canvases[i].name) > 1
             /\ \A j \in 1..(i - 1) : NameCount(canvases[j].name) = 1

C5_UntaggedPdfGivesNone ==
    (IsExport /\ format = "pdf" /\ last.existing.exc # "notcalled"
        /\ last.pre[OutFile].bytes[1] = "pdf") =>
        /\ last.existing.exc = "none"
        /\ IF Tagged(last.pre[OutFile])
           THEN last.existing.val =
                    [isNone |-> FALSE,
                     str |-> SubSeq(last.pre[OutFile].subject, 28,
                                    Len(last.pre[OutFile].subject))]
           ELSE last.existing.val.isNone

\* C6: a pdf written by export carries as its subject the marker followed by
\* the checksum of the canvas's png rendering computed in that same call (not
\* 'None', not an older checksum, not a hash of the pdf), on each of the paths
\* that write a pdf: destination absent, force set, stored checksum null or
\* different.
C6_PdfCarriesFreshChecksum ==
    /\ (IsExport /\ format = "pdf" /\ last.ret = "True") =>
           /\ fs[OutFile].hasSubject
           /\ fs[OutFile].subject = Marker \o RenderChecksum(TheContent)
           /\ last.nested = 1
           /\ last.chksum = [isNone |-> FALSE, str |-> RenderChecksum(TheContent)]
    /\ \A p \in Paths :
           (fs[p].exists /\ fs[p].bytes[1] = "pdf" /\ fs[p].bytes[2] # 0) =>
               /\ fs[p].hasSubject
               /\ fs[p].subject = Marker \o RenderChecksum(fs[p].bytes[2])

\* not forced, over a pdf that carries the checksum of another revision
C6_Witness ==
    /\ IsExport /\ format = "pdf" /\ ~last.force /\ last.ret = "True"
    /\ Tagged(last.pre[OutFile])
    /\ last.pre[OutFile].subject # Marker \o RenderChecksum(TheContent)
    /\ fs[OutFile].subject = Marker \o RenderChecksum(TheContent)

\* C7 (as claimed): every export of an existing canvas to png, svg or eps
\* writes the destination again and returns True, also when the destination
\* exists, force is not set and the canvas is unchanged.
C7_NonPdfAlwaysRerenders ==
    (IsExport /\ format # "pdf" /\ Unique) =>
        /\ last.exc = "none"
        /\ last.ret = "True"
        /\ SavedTo(OutFile)

\* C7 (amended): an export of a uniquely named canvas to png, svg or eps
\* returns False and leaves the destination untouched exactly when it is not
\* forced and the destination's bytes are the canvas's current png rendering,
\* as after a png export of the unchanged canvas; in every other case it
\* writes the destination again and returns True.  So svg and eps outputs are
\* written again on every run, and png outputs only when the canvas changed.
C7_NonPdfSkipsOnlyEqualPng ==
    (IsExport /\ format # "pdf" /\ Unique) =>
        /\ last.exc = "none"
        /\ last.ret \in {"True", "False"}
        /\ last.ret = "False" <=>
               /\ ~last.force
               /\ last.pre[OutFile].exists
               /\ last.pre[OutFile].bytes = <<"png", TheContent>>
        /\ last.ret = "False" => DestUntouched
        /\ last.ret = "True" =>
               /\ SavedTo(OutFile)
               /\ fs[OutFile].bytes = <<format, TheContent>>
        /\ (format \in {"svg", "eps"} /\ last.pre[OutFile].bytes[1] = format) =>
               last.ret = "True"

\* the repeated, not forced png export of an unchanged canvas is skipped
C7_Witness ==
    /\ Repeated /\ format = "png" /\ ~last.force /\ Unique
    /\ last.prev.ret = "True"
    /\ last.ret = "False"
    /\ last.skipped

\* C8 (as claimed): a non-forced export of an existing canvas to an existing
\* destination is skipped (False, destination and stored checksum unchanged)
\* exactly when the recorded checksum is non-null and equals the fresh one;
\* otherwise the destination is rewritten and the fresh checksum is the one
\* recorded, so that the next non-forced export of the unchanged canvas is
\* skipped.
C8_SkipIffRecordedEqualsFresh ==
    (IsExport /\ ~last.force /\ last.pre[OutFile].exists /\ Unique) =>
        /\ last.exc = "none"
        /\ last.ret = "False" <=> Recorded(last.pre[OutFile]) = RenderChecksum(TheContent)
        /\ last.ret = "False" => DestUntouched
        /\ last.ret = "True" =>
               /\ fs[OutFile].bytes = <<format, TheContent>>
               /\ Recorded(fs[OutFile]) = RenderChecksum(TheContent)
        /\ (Repeated /\ last.prev.ret = "True") => last.ret = "False"

\* C9 (as claimed): whenever compute_canvas_checksum has ended, by returning
\* or by raising, its temporary file no longer exists; so no temporary file
\* remains after any sequence of export and export_all calls.
C9_NoTemporaryFileRemains == TmpClean

\* C10: the nested export of compute_canvas_checksum never computes a checksum
\* itself and never takes the skip path: export frames nest at most one deep,
\* a top-level export asks for at most one nested rendering, and the assertion
\* on the nested export fails only when the canvas name does not match exactly
\* one canvas.
C10_NestingDepthAtMostOne ==
    /\ last.depth <= 1
    /\ ~last.nestedBranch
    /\ last.exc # "RuntimeError"
    /\ IsExport =>
           /\ last.nested <= 1
           /\ Len(last.saves) <= last.nested + 1
           /\ last.exc = "AssertionError@126" => ~Unique
    /\ IsExportAll =>
           /\ last.nested <= Len(last.visited)
           /\ last.exc = "AssertionError@126" =>
                  NameCount(last.visited[Len(last.visited)]) # 1

C10_Witness ==
    /\ IsExport
    /\ last.nested = 1
    /\ last.depth = 1
    /\ last.ret = "True"
    /\ Len(last.saves) = 2

====
